---- MODULE Spec2Model ----
(***************************************************************************)
(* Authorization, elevation policy and user-permission handlers of the     *)
(* MolinaFacilities application (app/modules/auth/security.py,             *)
(* app/common/security.py, app/modules/users/permissions.py,               *)
(* app/modules/users/views.py, app/modules/admin/views.py).                *)
(*                                                                         *)
(* Python values are modelled as tagged records [t |-> tag, ...]; Python   *)
(* None in a string position is the token None below.  Database rows are   *)
(* read as dict-like records.                                              *)
(***************************************************************************)
EXTENDS Integers, Sequences, FiniteSets, TLC

\* ------------------------------------------------------------------------
\* Python values
\* ------------------------------------------------------------------------

\* Python None where a level / string is expected
None == "<None>"

\* Python truthiness of a string-or-None value
Truthy(v) == v # None /\ v # ""

Range(s) == {s[i] : i \in 1..Len(s)}

EmptyDict == [k \in {} |-> FALSE]

PyNone == [t |-> "none", raw |-> "", d |-> EmptyDict, l |-> <<>>]
PyDict(d) == [t |-> "dict", raw |-> "", d |-> d, l |-> <<>>]
PyList(l) == [t |-> "list", raw |-> "", d |-> EmptyDict, l |-> l]
\* a str holding the JSON encoding (json.dumps) of a dict or list value
JsonDict(d) == [t |-> "str", raw |-> "<json-dict>", d |-> d, l |-> <<>>]
JsonList(l) == [t |-> "str", raw |-> "<json-list>", d |-> EmptyDict, l |-> l]
\* a str that is not the JSON encoding of a dict or list: its characters
RawStr(s) == [t |-> "str", raw |-> s, d |-> EmptyDict, l |-> <<>>]

\* json.loads(text): the decoded value, or [t |-> "error"] when it raises
JsonError == [t |-> "error", raw |-> "", d |-> EmptyDict, l |-> <<>>]

json_loads(x) ==
    CASE x.raw = "<json-dict>" -> PyDict(x.d)
      [] x.raw = "<json-list>" -> PyList(x.l)
      [] x.raw = "null" -> PyNone
      [] OTHER -> JsonError

\* Python falsiness of a caps value: None, "", {} and []
PyFalsy(v) ==
    \/ v.t = "none"
    \/ v.t = "str" /\ v.raw = ""
    \/ v.t = "dict" /\ DOMAIN v.d = {}
    \/ v.t = "list" /\ v.l = <<>>

\* dict.get(k) read for truthiness: a missing key gives None (falsy)
DictGet(d, k) == IF k \in DOMAIN d THEN d[k] ELSE FALSE

\* ------------------------------------------------------------------------
\* app/modules/users/permissions.py
\* ------------------------------------------------------------------------

LevelValues == {"M1", "M2", "M3A", "M3B", "M3C", "L1", "L2", "L3", "S1"}

from_string(value) == IF value \in LevelValues THEN value ELSE None

get_hierarchy_level(level) ==
    CASE level \in {"M1", "M2", "M3A", "M3B"} -> 1
      [] level = "M3C" -> 2
      [] level = "L1" -> 10
      [] level = "L2" -> 20
      [] level = "L3" -> 30
      [] level = "S1" -> 100
      [] OTHER -> 0

\* get_included_permissions with the Inventory module inside the M3B row
get_included_permissions_m3b(level) ==
    IF from_string(level) = None THEN <<>>
    ELSE CASE level = "S1" -> <<"S1", "L3", "L2", "L1", "M1", "M2", "M3A", "M3B", "M3C">>
           [] level = "L3" -> <<"L3", "L2", "L1", "M1", "M2", "M3A", "M3B", "M3C">>
           [] level = "L2" -> <<"L2", "L1", "M1", "M2", "M3A", "M3B", "M3C">>
           [] level = "L1" -> <<"L1", "M1", "M2", "M3A", "M3B", "M3C">>
           [] level = "M3C" -> <<"M3C", "M3B", "M3A">>
           [] level = "M3B" -> <<"M3B", "M2">>
           [] OTHER -> <<level>>

\* get_included_permissions with L1 left out of the L2 row
get_included_permissions_l2(level) ==
    IF from_string(level) = None THEN <<>>
    ELSE CASE level = "S1" -> <<"S1", "L3", "L2", "L1", "M1", "M2", "M3A", "M3B", "M3C">>
           [] level = "L3" -> <<"L3", "L2", "L1", "M1", "M2", "M3A", "M3B", "M3C">>
           [] level = "L2" -> <<"L2", "M1", "M2", "M3A", "M3B", "M3C">>
           [] level = "L1" -> <<"L1", "M1", "M2", "M3A", "M3B", "M3C">>
           [] level = "M3C" -> <<"M3C", "M3B", "M3A">>
           [] level = "M3B" -> <<"M3B">>
           [] OTHER -> <<level>>

get_included_permissions(level) ==
    IF from_string(level) = None THEN <<>>
    ELSE CASE level = "S1" -> <<"S1", "L3", "L2", "L1", "M1", "M2", "M3A", "M3B", "M3C">>
           [] level = "L3" -> <<"L3", "L2", "L1", "M1", "M2", "M3A", "M3B", "M3C">>
           [] level = "L2" -> <<"L2", "L1", "M1", "M2", "M3A", "M3B", "M3C">>
           [] level = "L1" -> <<"L1", "M1", "M2", "M3A", "M3B", "M3C">>
           [] level = "M3C" -> <<"M3C", "M3B", "M3A">>
           [] level = "M3B" -> <<"M3B">>
           [] OTHER -> <<level>>

\* elevation_rules with the L2 row one level too wide
elevation_rules_wide ==
    [a \in {"L1", "L2", "L3", "S1"} |->
        CASE a = "L1" -> {"L1"}
          [] a = "L2" -> {"L1", "L2", "L3"}
          [] a = "L3" -> {"L1", "L2", "L3"}
          [] a = "S1" -> {"L1", "L2", "L3", "S1"}]

elevation_rules ==
    [a \in {"L1", "L2", "L3", "S1"} |->
        CASE a = "L1" -> {"L1"}
          [] a = "L2" -> {"L1", "L2"}
          [] a = "L3" -> {"L1", "L2", "L3"}
          [] a = "S1" -> {"L1", "L2", "L3", "S1"}]

can_elevate_to(actor_level, target_level) ==
    IF from_string(actor_level) = None \/ from_string(target_level) = None
    THEN FALSE
    ELSE IF actor_level \notin DOMAIN elevation_rules
         THEN FALSE
         ELSE target_level \in elevation_rules[actor_level]

\* can_modify_user comparing with >= instead of >
PM_can_modify_user_ge(actor_level, target_level) ==
    IF ~Truthy(actor_level) \/ ~Truthy(target_level)
    THEN FALSE
    ELSE IF from_string(actor_level) = None \/ from_string(target_level) = None
         THEN FALSE
         ELSE get_hierarchy_level(from_string(actor_level))
                >= get_hierarchy_level(from_string(target_level))

PM_can_modify_user(actor_level, target_level) ==
    IF ~Truthy(actor_level) \/ ~Truthy(target_level)
    THEN FALSE
    ELSE IF from_string(actor_level) = None \/ from_string(target_level) = None
         THEN FALSE
         ELSE get_hierarchy_level(from_string(actor_level))
                > get_hierarchy_level(from_string(target_level))

parse_module_permissions(permissions_json) ==
    IF PyFalsy(permissions_json) \/ permissions_json.t # "str"
    THEN <<>>
    ELSE LET perms == json_loads(permissions_json)
         IN  CASE perms.t = "list" -> perms.l
               [] perms.t = "dict" ->
                    (IF DictGet(perms.d, "can_send") \/ DictGet(perms.d, "send")
                     THEN <<"M1">> ELSE <<>>)
                    \o (IF DictGet(perms.d, "can_asset") \/ DictGet(perms.d, "inventory")
                        THEN <<"M2">> ELSE <<>>)
                    \o (IF DictGet(perms.d, "can_fulfillment_customer")
                           \/ DictGet(perms.d, "fulfillment_customer")
                        THEN <<"M3A">> ELSE <<>>)
                    \o (IF DictGet(perms.d, "can_fulfillment_staff")
                           \/ DictGet(perms.d, "fulfillment_staff")
                        THEN <<"M3B">> ELSE <<>>)
               [] OTHER -> <<>>

check_permission(user_data, required_permission) ==
    LET user_level == user_data.permission_level
    IN  IF Truthy(user_level)
           /\ required_permission \in Range(get_included_permissions(user_level))
        THEN TRUE
        ELSE required_permission
                \in Range(parse_module_permissions(user_data.module_permissions))

\* the permission token behind each flag of get_effective_permissions
EffectiveFlag ==
    [f \in {"can_send", "can_inventory", "can_fulfillment_customer",
            "can_fulfillment_service", "can_fulfillment_manager",
            "can_admin_users", "can_admin_system", "can_admin_developer",
            "is_system"} |->
        CASE f = "can_send" -> "M1"
          [] f = "can_inventory" -> "M2"
          [] f = "can_fulfillment_customer" -> "M3A"
          [] f = "can_fulfillment_service" -> "M3B"
          [] f = "can_fulfillment_manager" -> "M3C"
          [] f = "can_admin_users" -> "L1"
          [] f = "can_admin_system" -> "L2"
          [] f = "can_admin_developer" -> "L3"
          [] f = "is_system" -> "S1"]

get_effective_permissions(user_data) ==
    LET user_level == user_data.permission_level
        level_perms == IF Truthy(user_level)
                       THEN Range(get_included_permissions(user_level))
                       ELSE {}
        module_perms == Range(parse_module_permissions(user_data.module_permissions))
    IN  [f \in DOMAIN EffectiveFlag |->
            \/ EffectiveFlag[f] \in level_perms
            \/ /\ EffectiveFlag[f] \in {"M1", "M2", "M3A", "M3B", "M3C"}
               /\ EffectiveFlag[f] \in module_perms]

\* ------------------------------------------------------------------------
\* User rows
\* ------------------------------------------------------------------------

\* current_user() / get_user_by_id() found nothing: Python None
NoUser == [id |-> 0]

\* bool(v) of an INTEGER column
Bool(n) == n # 0

\* str.strip() and str.lower() on the strings of the model
Strip(s) ==
    CASE s = " send " -> "send"
      [] s = "  " -> ""
      [] OTHER -> s

Lower(s) ==
    CASE s = "SEND" -> "send"
      [] s = "Asset" -> "asset"
      [] OTHER -> s

\* [c.strip() for c in raw.split(",") if c.strip()]
CsvSplit(s) ==
    CASE s = "send,asset" -> <<"send", "asset">>
      [] s = "SEND, inventory" -> <<"SEND", "inventory">>
      [] Strip(s) = "" -> <<>>
      [] OTHER -> <<Strip(s)>>

\* ------------------------------------------------------------------------
\* app/modules/auth/security.py
\* ------------------------------------------------------------------------

_parse_caps(u) ==
    LET raw0 == u.caps
        raw == IF raw0.t = "str"
               THEN (IF json_loads(raw0) = JsonError THEN PyDict(EmptyDict)
                     ELSE json_loads(raw0))
               ELSE raw0
        caps_dict == CASE raw.t = "dict" -> raw.d
                       [] raw.t = "list" -> [k \in Range(raw.l) |-> TRUE]
                       [] OTHER -> EmptyDict
    IN  [k \in (DOMAIN caps_dict) \cup {"is_admin", "is_sysadmin"} |->
            CASE k = "is_admin" -> Bool(u.is_admin)
              [] k = "is_sysadmin" -> Bool(u.is_sysadmin)
              [] OTHER -> caps_dict[k]]

_CAP_SYNONYMS ==
    [c \in {"asset", "inventory", "can_asset", "can_inventory", "send",
            "can_send", "insights", "can_insights", "users", "can_users",
            "admin", "sysadmin", "fulfillment_staff", "can_fulfillment_staff",
            "fulfillment_customer", "can_fulfillment_customer",
            "fulfillment_any"} |->
        CASE c = "asset" -> "can_asset"
          [] c = "inventory" -> "can_inventory"
          [] c = "send" -> "can_send"
          [] c = "insights" -> "can_insights"
          [] c = "users" -> "can_users"
          [] c = "admin" -> "is_admin"
          [] c = "sysadmin" -> "is_sysadmin"
          [] c = "fulfillment_staff" -> "can_fulfillment_staff"
          [] c = "fulfillment_customer" -> "can_fulfillment_customer"
          [] OTHER -> c]

\* _CAP_SYNONYMS.get(cap, cap)
CapKey(cap) == IF cap \in DOMAIN _CAP_SYNONYMS THEN _CAP_SYNONYMS[cap] ELSE cap

\* has_cap looking the capability up as given, without the synonym table
has_cap_rawkey(user_row, cap) ==
    IF user_row = NoUser
    THEN FALSE
    ELSE LET caps == _parse_caps(user_row)
         IN  IF DictGet(caps, "is_sysadmin") \/ DictGet(caps, "is_admin")
             THEN TRUE
             ELSE IF cap = "fulfillment_any"
                  THEN DictGet(caps, "fulfillment_staff")
                         \/ DictGet(caps, "fulfillment_customer")
                  ELSE DictGet(caps, cap)

has_cap(user_row, cap) ==
    IF user_row = NoUser
    THEN FALSE
    ELSE LET caps == _parse_caps(user_row)
             key == CapKey(cap)
         IN  IF DictGet(caps, "is_sysadmin") \/ DictGet(caps, "is_admin")
             THEN TRUE
             ELSE IF key = "fulfillment_any"
                  THEN DictGet(caps, "fulfillment_staff")
                         \/ DictGet(caps, "fulfillment_customer")
                  ELSE DictGet(caps, key)

\* ------------------------------------------------------------------------
\* app/common/security.py
\* ------------------------------------------------------------------------

\* _as_bool(user_row, key) for the INTEGER columns is_admin / is_sysadmin;
\* the keys "admin" and "sysadmin" are not columns of a user row (None)
_as_bool(user_row, key) ==
    CASE key = "is_admin" -> Bool(user_row.is_admin)
      [] key = "is_sysadmin" -> Bool(user_row.is_sysadmin)
      [] OTHER -> FALSE

_caps_list(user_row) ==
    LET raw == IF PyFalsy(user_row.caps) THEN PyList(<<>>) ELSE user_row.caps
        caps == CASE raw.t = "str" ->
                       IF raw.raw \notin {"<json-dict>", "<json-list>"}
                          /\ Strip(raw.raw) = ""
                       THEN <<>>
                       ELSE LET parsed == json_loads(raw)
                            IN  CASE parsed = JsonError -> CsvSplit(raw.raw)
                                  [] parsed.t = "list" -> parsed.l
                                  [] parsed.t = "none" -> <<"None">>
                                  [] OTHER -> <<"<repr of dict>">>
                  [] raw.t = "list" -> raw.l
                  [] OTHER -> <<>>
    IN  {Lower(Strip(c)) : c \in Range(caps)}

_SYNONYMS ==
    [c \in {"asset", "inventory", "fulfillment_any", "fulfillment_staff",
            "fulfillment_customer", "insights", "users", "admin", "sysadmin"} |->
        CASE c \in {"asset", "inventory"} -> {"asset", "inventory"}
          [] c = "fulfillment_any" ->
                {"fulfillment_any", "fulfillment", "fulfillment_staff",
                 "fulfillment_customer"}
          [] c = "fulfillment_staff" ->
                {"fulfillment_staff", "fulfillment_any", "fulfillment"}
          [] c = "fulfillment_customer" ->
                {"fulfillment_customer", "fulfillment_any", "fulfillment"}
          [] c = "users" -> {"users", "user_admin"}
          [] OTHER -> {c}]

common_has_cap(user_row, cap) ==
    IF user_row = NoUser
    THEN FALSE
    ELSE IF _as_bool(user_row, "is_sysadmin") \/ _as_bool(user_row, "sysadmin")
         THEN TRUE
         ELSE IF _as_bool(user_row, "is_admin") \/ _as_bool(user_row, "admin")
              THEN TRUE
              ELSE LET want == IF Lower(cap) \in DOMAIN _SYNONYMS
                               THEN _SYNONYMS[Lower(cap)] ELSE {Lower(cap)}
                       have == _caps_list(user_row)
                   IN  have \cap want # {}

\* ------------------------------------------------------------------------
\* app/core/auth.py
\* ------------------------------------------------------------------------

\* _row_to_user(row): the caps column decoded, {} when json.loads raises
\* (also the TypeError of a value that is no str)
_row_to_user(row) ==
    IF row = NoUser
    THEN NoUser
    ELSE LET text == IF PyFalsy(row.caps) THEN JsonDict(EmptyDict) ELSE row.caps
             parsed == IF text.t = "str" THEN json_loads(text) ELSE JsonError
         IN  [id |-> row.id, username |-> row.username,
              is_admin |-> Bool(row.is_admin),
              is_sysadmin |-> Bool(row.is_sysadmin),
              caps |-> IF parsed = JsonError THEN PyDict(EmptyDict) ELSE parsed]

\* _has_cap reaches caps.get on a value that is no dict (a non-empty JSON
\* list): AttributeError
_has_cap_raises(user, cap) ==
    /\ user # NoUser
    /\ ~(user.is_admin \/ user.is_sysadmin)
    /\ ~PyFalsy(user.caps)
    /\ user.caps.t # "dict"

\* _has_cap(user, cap) where it returns
_has_cap(user, cap) ==
    IF user # NoUser /\ (user.is_admin \/ user.is_sysadmin)
    THEN TRUE
    ELSE IF user = NoUser
         THEN FALSE
         ELSE LET caps == IF PyFalsy(user.caps) THEN EmptyDict ELSE user.caps.d
              IN  IF cap \in {"inventory", "asset"}
                  THEN DictGet(caps, "inventory") \/ DictGet(caps, "asset")
                  ELSE DictGet(caps, cap)

\* ------------------------------------------------------------------------
\* app/modules/users/views.py: permission checking
\* ------------------------------------------------------------------------

get_user_permission_level(user_data) ==
    IF user_data = NoUser
    THEN None
    ELSE LET text == IF PyFalsy(user_data.caps) THEN JsonDict(EmptyDict)
                     ELSE user_data.caps
             \* json.loads(...).get("is_system"); any exception is swallowed
             is_system == /\ text.t = "str"
                          /\ json_loads(text).t = "dict"
                          /\ DictGet(json_loads(text).d, "is_system")
         IN  IF is_system THEN "S1"
             ELSE IF Truthy(user_data.permission_level)
                  THEN user_data.permission_level
                  ELSE IF Bool(user_data.is_sysadmin) THEN "L2"
                       ELSE IF Bool(user_data.is_admin) THEN "L1"
                            ELSE None

can_modify_user(actor_data, target_data) ==
    IF actor_data = NoUser
    THEN FALSE
    ELSE LET actor_level == get_user_permission_level(actor_data)
             target_level == IF target_data # NoUser
                             THEN get_user_permission_level(target_data)
                             ELSE None
         IN  PM_can_modify_user(actor_level,
                                IF Truthy(target_level) THEN target_level ELSE "")

can_elevate_users(user_data, to_level) ==
    IF user_data = NoUser
    THEN FALSE
    ELSE LET actor_level == get_user_permission_level(user_data)
         IN  IF Truthy(to_level)
             THEN can_elevate_to(actor_level, to_level)
             ELSE actor_level \in {"L1", "L2", "L3", "S1"}

\* ------------------------------------------------------------------------
\* State
\* ------------------------------------------------------------------------

VARIABLES
    users,                  \* users table: id -> row
    user_elevation_history, \* user_elevation_history table, in insertion order
    audit_logs,             \* audit_logs table, in insertion order
    req,                    \* the requests being served: their locals and position
    nreq,                   \* number of requests received so far
    session_user,           \* the row current_user() returns to a capability guard
    route_cap,              \* the capability the guarded route declares
    response,               \* what the guard made of the request
    resolved,               \* the capabilities a resolver call returned
    actor_level,            \* arguments of a call of the elevation policy
    target_level,
    verdict,                \* the policy function called and its result
    included,               \* what a get_included_permissions call returned
    hierarchy,              \* what the get_hierarchy_level calls returned
    now,                    \* the clock datetime.utcnow() reads
    query                   \* the last audit query and the rows it returned

mgmt_vars == <<users, user_elevation_history, audit_logs, req, nreq>>
guard_vars == <<session_user, route_cap, response, resolved>>
policy_vars == <<actor_level, target_level, verdict, included, hierarchy>>
audit_vars == <<now, query>>
vars == <<users, user_elevation_history, audit_logs, req, nreq,
          session_user, route_cap, response, resolved,
          actor_level, target_level, verdict, included, hierarchy,
          now, query>>

\* ------------------------------------------------------------------------
\* Bounds
\* ------------------------------------------------------------------------

\* most keys of a caps dict / items of a caps list
MaxKeys == 2

\* ------------------------------------------------------------------------
\* Elevation policy calls (PermissionManager.can_elevate_to / can_modify_user)
\* ------------------------------------------------------------------------

\* level arguments: the defined tokens, None, the empty string, an undefined token
LevelInputs == LevelValues \cup {None, "", "X9"}

NoVerdict == [fn |-> "none", result |-> FALSE]

\* get_included_permissions / get_hierarchy_level not called yet
NoIncluded == [called |-> FALSE]

NoHierarchy == [called |-> FALSE]

CallCanElevate ==
    /\ verdict = NoVerdict
    /\ verdict' = [fn |-> "can_elevate_to",
                   result |-> can_elevate_to(actor_level, target_level)]
    /\ UNCHANGED <<mgmt_vars, audit_vars, guard_vars, actor_level, target_level,
                   included, hierarchy>>

CallCanModify ==
    /\ verdict = NoVerdict
    /\ verdict' = [fn |-> "can_modify_user",
                   result |-> PM_can_modify_user(actor_level, target_level)]
    /\ UNCHANGED <<mgmt_vars, audit_vars, guard_vars, actor_level, target_level,
                   included, hierarchy>>

\* PermissionManager.get_included_permissions(actor_level)
Call_get_included_permissions ==
    /\ ~included.called
    /\ included' = [called |-> TRUE,
                    perms |-> get_included_permissions(actor_level)]
    /\ UNCHANGED <<mgmt_vars, audit_vars, guard_vars, actor_level, target_level,
                   verdict, hierarchy>>

\* get_hierarchy_level() of the two level enums, as can_modify_user compares
\* them; from_string gave an enum member for both
Call_get_hierarchy_level ==
    /\ ~hierarchy.called
    /\ from_string(actor_level) # None
    /\ from_string(target_level) # None
    /\ hierarchy' = [called |-> TRUE,
                     actor |-> get_hierarchy_level(from_string(actor_level)),
                     target |-> get_hierarchy_level(from_string(target_level))]
    /\ UNCHANGED <<mgmt_vars, audit_vars, guard_vars, actor_level, target_level,
                   verdict, included>>

\* ------------------------------------------------------------------------
\* Capability guards (require_cap of auth/security.py and common/security.py)
\* ------------------------------------------------------------------------

TokenOrder == <<"can_send", "send", "SEND", " send ", "can_asset", "asset",
                "inventory", "can_users", "is_system", "is_admin",
                "fulfillment_staff", "fulfillment_any">>

PayloadTokens == Range(TokenOrder)

\* the list holding the tokens of S, in TokenOrder
ListOf(S) == SelectSeq(TokenOrder, LAMBDA x : x \in S)

SmallTokenSets == {S \in SUBSET PayloadTokens : Cardinality(S) <= MaxKeys}

PayloadDicts == UNION {[S -> BOOLEAN] : S \in SmallTokenSets}

PayloadLists == {ListOf(S) : S \in SmallTokenSets}

RawTexts == {"", "  ", "{not valid json", "null", "send,asset", "SEND, inventory"}

Payloads ==
    {PyNone}
      \cup {PyDict(d) : d \in PayloadDicts}
      \cup {JsonDict(d) : d \in PayloadDicts}
      \cup {PyList(l) : l \in PayloadLists}
      \cup {JsonList(l) : l \in PayloadLists}
      \cup {RawStr(x) : x \in RawTexts}

GuardLevels == {"", "M1"}

Principals ==
    {[id |-> 1, username |-> "alice", caps |-> c, is_admin |-> a,
      is_sysadmin |-> sa, permission_level |-> lv,
      module_permissions |-> JsonList(<<>>)] :
        c \in Payloads, a \in {0, 1}, sa \in {0, 1}, lv \in GuardLevels}

RouteCaps == {"can_users", "users", "can_send", "send", "can_asset", "asset",
              "inventory", "can_inventory", "fulfillment_any",
              "fulfillment_staff", "admin"}

NoResponse == [guard |-> "none", result |-> "pending"]

\* no resolver has been called
NoResolved == [fn |-> "none"]

\* a call of _parse_caps (auth/security.py) on the row: the dict it returns
Call_parse_caps ==
    /\ resolved = NoResolved
    /\ session_user # NoUser
    /\ resolved' = [fn |-> "_parse_caps", caps |-> _parse_caps(session_user),
                    have |-> {}]
    /\ UNCHANGED <<mgmt_vars, audit_vars, policy_vars, session_user, route_cap, response>>

\* a call of _caps_list (common/security.py) on the row: the set it returns
Call_caps_list ==
    /\ resolved = NoResolved
    /\ session_user # NoUser
    /\ resolved' = [fn |-> "_caps_list", caps |-> EmptyDict,
                    have |-> _caps_list(session_user)]
    /\ UNCHANGED <<mgmt_vars, audit_vars, policy_vars, session_user, route_cap, response>>

\* require_cap without the "if not u" sign-in check
require_cap_nologin ==
    /\ response = NoResponse
    /\ response' =
         [guard |-> "auth",
          result |-> IF ~has_cap(session_user, route_cap) THEN "home"
                     ELSE "view"]
    /\ UNCHANGED <<mgmt_vars, audit_vars, policy_vars, session_user, route_cap, resolved>>

require_cap ==
    /\ response = NoResponse
    /\ response' =
         [guard |-> "auth",
          result |-> IF session_user = NoUser THEN "login"
                     ELSE IF ~has_cap(session_user, route_cap) THEN "home"
                          ELSE "view"]
    /\ UNCHANGED <<mgmt_vars, audit_vars, policy_vars, session_user, route_cap, resolved>>

common_require_cap ==
    /\ response = NoResponse
    /\ response' =
         [guard |-> "common",
          result |-> IF session_user = NoUser THEN "login"
                     ELSE IF ~common_has_cap(session_user, route_cap) THEN "home"
                          ELSE "view"]
    /\ UNCHANGED <<mgmt_vars, audit_vars, policy_vars, session_user, route_cap, resolved>>

\* require_cap of core/auth.py; current_user() is _row_to_user of the row
core_require_cap ==
    /\ response = NoResponse
    /\ LET u == _row_to_user(session_user)
       IN  response' =
             [guard |-> "core",
              result |-> IF u = NoUser THEN "login"
                         ELSE IF _has_cap_raises(u, route_cap) THEN "error"
                              ELSE IF ~_has_cap(u, route_cap) THEN "home"
                                   ELSE "view"]
    /\ UNCHANGED <<mgmt_vars, audit_vars, policy_vars, session_user, route_cap, resolved>>

\* ------------------------------------------------------------------------
\* Users, elevation history and audit log (app/modules/users/views.py)
\* ------------------------------------------------------------------------

\* requests received in one run
MaxRequests == 2

UserIds == {1, 2, 3}

\* a user id no row has
MissingId == 9

\* a request without a session
Anonymous == 0

\* requests served at the same time
Procs == {1, 2}

\* the "level" a POST /users/elevate carries: defined tokens, an undefined
\* token, or none at all
RequestLevels == {"L1", "L3", "X9", None}

\* the perm_m1 .. perm_m3c boxes a POST /users/<uid>/edit ticks
FormPerms == {<<>>, <<"M2", "M3C">>}

\* the users table once the application is set up: the AppAdmin system
\* account (create_app_admin.py), the first sysadmin
\* (ensure_first_sysadmin) and a user made on the create screen with the
\* Send module ticked
InitUsers ==
    [i \in UserIds |->
        CASE i = 1 ->
               [id |-> 1, username |-> "AppAdmin",
                caps |-> JsonDict([k \in {"is_system", "can_users"} |-> TRUE]),
                is_admin |-> 1, is_sysadmin |-> 1,
                permission_level |-> "",
                module_permissions |-> JsonList(<<>>),
                elevated_by |-> 0, last_modified_by |-> 0]
          [] i = 2 ->
               [id |-> 2, username |-> "admin",
                caps |-> JsonDict([k \in {"is_sysadmin", "is_admin",
                                          "insights", "users"} |-> TRUE]),
                is_admin |-> 1, is_sysadmin |-> 1,
                permission_level |-> "",
                module_permissions |-> JsonList(<<>>),
                elevated_by |-> 0, last_modified_by |-> 0]
          [] i = 3 ->
               [id |-> 3, username |-> "bob",
                caps |-> PyNone,
                is_admin |-> 0, is_sysadmin |-> 0,
                permission_level |-> "",
                module_permissions |-> JsonList(<<"M1">>),
                elevated_by |-> 0, last_modified_by |-> 0]]

\* models.get_user_by_id / the row current_user() loads for a session
get_user_by_id(uid) == IF uid \in DOMAIN users THEN users[uid] ELSE NoUser

IdleRequest ==
    [op |-> "idle", pc |-> "idle", actor |-> Anonymous, uid |-> MissingId,
     new_level |-> None, perms |-> <<>>, cu |-> NoUser, target |-> NoUser,
     old_level |-> "", old_modules |-> PyNone, status |-> 0]

\* a request arrives; login_required and the handler load current_user()
Receive(p, op, actor, uid, level, perms) ==
    /\ req[p].pc \in {"idle", "done"}
    /\ nreq < MaxRequests
    /\ nreq' = nreq + 1
    /\ LET cu == get_user_by_id(actor)
       IN  req' = [req EXCEPT ![p] =
                      IF cu = NoUser
                      THEN [IdleRequest EXCEPT
                              !.op = op, !.uid = uid, !.new_level = level,
                              !.pc = "done", !.status = 302]
                      ELSE [IdleRequest EXCEPT
                              !.op = op, !.actor = actor, !.uid = uid,
                              !.new_level = level, !.perms = perms, !.cu = cu,
                              !.pc = "get_target"]]
    /\ UNCHANGED <<users, user_elevation_history, audit_logs>>
    /\ UNCHANGED <<guard_vars, policy_vars, audit_vars>>

\* the sessions and targets of the requests: a request without a session
\* ends at login_required whatever it asks for, so it comes in one form
Sessions(uid) == IF uid = MissingId THEN UserIds \cup {Anonymous} ELSE UserIds

ReceiveElevate(p) ==
    \E uid \in UserIds \cup {MissingId}, level \in RequestLevels :
        \E actor \in Sessions(uid) :
            /\ actor = Anonymous => level = None
            /\ Receive(p, "elevate", actor, uid, level, <<>>)

ReceiveDemote(p) ==
    \E uid \in UserIds \cup {MissingId} :
        \E actor \in Sessions(uid) :
            Receive(p, "demote", actor, uid, None, <<>>)

ReceiveEdit(p) ==
    \E uid \in UserIds \cup {MissingId}, perms \in FormPerms :
        \E actor \in Sessions(uid) :
            /\ actor = Anonymous => perms = <<>>
            /\ Receive(p, "edit", actor, uid, None, perms)

\* the handler returns: its locals are gone, the request (target id, level
\* asked for) and the status of the response remain
Finish(p, code) ==
    [req EXCEPT ![p] = [IdleRequest EXCEPT !.op = req[p].op,
                                           !.uid = req[p].uid,
                                           !.new_level = req[p].new_level,
                                           !.pc = "done",
                                           !.status = code]]

\* elevate_user without the can_elevate_to check
ElevateCheck_nopolicy(p) ==
    /\ req[p].op = "elevate"
    /\ req[p].pc = "get_target"
    /\ LET target == get_user_by_id(req[p].uid)
       IN  req' = IF target = NoUser THEN Finish(p, 404)
                  ELSE IF ~Truthy(req[p].new_level) THEN Finish(p, 400)
                  ELSE [req EXCEPT ![p].target = target,
                                   ![p].pc = "upd_read"]
    /\ UNCHANGED <<users, user_elevation_history, audit_logs, nreq>>
    /\ UNCHANGED <<guard_vars, policy_vars, audit_vars>>

\* elevate_user: load the target, validate the level and the policy
ElevateCheck(p) ==
    /\ req[p].op = "elevate"
    /\ req[p].pc = "get_target"
    /\ LET cu_level == get_user_permission_level(req[p].cu)
           target == get_user_by_id(req[p].uid)
       IN  req' = IF target = NoUser THEN Finish(p, 404)
                  ELSE IF ~Truthy(req[p].new_level) THEN Finish(p, 400)
                  ELSE IF ~can_elevate_to(cu_level, req[p].new_level)
                       THEN Finish(p, 403)
                       ELSE [req EXCEPT ![p].target = target,
                                        ![p].pc = "upd_read"]
    /\ UNCHANGED <<users, user_elevation_history, audit_logs, nreq>>
    /\ UNCHANGED <<guard_vars, policy_vars, audit_vars>>

\* update_user_permissions: load the row for the history
UpdateRead(p) ==
    /\ req[p].op = "elevate"
    /\ req[p].pc = "upd_read"
    /\ LET user == get_user_by_id(req[p].uid)
       IN  req' = [req EXCEPT ![p].old_level = user.permission_level,
                              ![p].old_modules = user.module_permissions,
                              ![p].pc = "upd_commit"]
    /\ UNCHANGED <<users, user_elevation_history, audit_logs, nreq>>
    /\ UNCHANGED <<guard_vars, policy_vars, audit_vars>>

\* a Python list never equals a str: module_permissions != old_modules
PyListNeStr(list, text) == TRUE

\* update_user_permissions writing the level and the history but leaving the
\* module_permissions column as it was
UpdateCommit_keepmodules(p) ==
    /\ req[p].op = "elevate"
    /\ req[p].pc = "upd_commit"
    /\ LET uid == req[p].uid
           permission_level == req[p].new_level
           elevated_by == req[p].cu.id
       IN  /\ users' = [users EXCEPT
                          ![uid].permission_level = permission_level,
                          ![uid].elevated_by = elevated_by]
           /\ user_elevation_history' =
                Append(user_elevation_history,
                       [user_id |-> uid, elevated_by |-> elevated_by,
                        old_level |-> req[p].old_level,
                        new_level |-> permission_level,
                        old_permissions |-> req[p].old_modules,
                        new_permissions |-> JsonList(<<>>),
                        reason |-> ""])
    /\ req' = [req EXCEPT ![p].pc = "audit"]
    /\ UNCHANGED <<audit_logs, nreq>>
    /\ UNCHANGED <<guard_vars, policy_vars, audit_vars>>

\* update_user_permissions: the UPDATE and the history INSERT, one commit
UpdateCommit(p) ==
    /\ req[p].op = "elevate"
    /\ req[p].pc = "upd_commit"
    /\ LET uid == req[p].uid
           permission_level == req[p].new_level
           module_permissions == <<>>
           elevated_by == req[p].cu.id
       IN  /\ users' = [users EXCEPT
                          ![uid].permission_level = permission_level,
                          ![uid].module_permissions = JsonList(module_permissions),
                          ![uid].elevated_by = elevated_by]
           /\ user_elevation_history' =
                IF elevated_by # 0
                   /\ (permission_level # req[p].old_level
                         \/ PyListNeStr(module_permissions, req[p].old_modules))
                THEN Append(user_elevation_history,
                            [user_id |-> uid, elevated_by |-> elevated_by,
                             old_level |-> req[p].old_level,
                             new_level |-> permission_level,
                             old_permissions |-> req[p].old_modules,
                             new_permissions |-> JsonList(module_permissions),
                             reason |-> ""])
                ELSE user_elevation_history
    /\ req' = [req EXCEPT ![p].pc = "audit"]
    /\ UNCHANGED <<audit_logs, nreq>>
    /\ UNCHANGED <<guard_vars, policy_vars, audit_vars>>

\* demote_user: load the target, check can_modify_user
DemoteCheck(p) ==
    /\ req[p].op = "demote"
    /\ req[p].pc = "get_target"
    /\ LET target == get_user_by_id(req[p].uid)
       IN  req' = IF target = NoUser THEN Finish(p, 404)
                  ELSE IF ~can_modify_user(req[p].cu, target)
                       THEN Finish(p, 403)
                       ELSE [req EXCEPT ![p].target = target,
                                        ![p].pc = "commit"]
    /\ UNCHANGED <<users, user_elevation_history, audit_logs, nreq>>
    /\ UNCHANGED <<guard_vars, policy_vars, audit_vars>>

\* demote_user giving the target back the module grants its last elevation
\* took away
DemoteCommit_restore(p) ==
    /\ req[p].op = "demote"
    /\ req[p].pc = "commit"
    /\ LET uid == req[p].uid
           past == {i \in 1..Len(user_elevation_history) :
                       user_elevation_history[i].user_id = uid}
           last == CHOOSE i \in past : \A j \in past : j <= i
       IN  users' = [users EXCEPT
                       ![uid].permission_level = "",
                       ![uid].module_permissions =
                           IF past = {} THEN @
                           ELSE user_elevation_history[last].old_permissions,
                       ![uid].elevated_by = 0,
                       ![uid].last_modified_by = req[p].cu.id]
    /\ req' = [req EXCEPT ![p].pc = "audit"]
    /\ UNCHANGED <<user_elevation_history, audit_logs, nreq>>
    /\ UNCHANGED <<guard_vars, policy_vars, audit_vars>>

\* demote_user: the UPDATE that clears the admin level
DemoteCommit(p) ==
    /\ req[p].op = "demote"
    /\ req[p].pc = "commit"
    /\ users' = [users EXCEPT ![req[p].uid].permission_level = "",
                              ![req[p].uid].elevated_by = 0,
                              ![req[p].uid].last_modified_by = req[p].cu.id]
    /\ req' = [req EXCEPT ![p].pc = "audit"]
    /\ UNCHANGED <<user_elevation_history, audit_logs, nreq>>
    /\ UNCHANGED <<guard_vars, policy_vars, audit_vars>>

\* edit_user without the can_modify_user check
EditCheck_nocheck(p) ==
    /\ req[p].op = "edit"
    /\ req[p].pc = "get_target"
    /\ LET target == get_user_by_id(req[p].uid)
       IN  req' = IF target = NoUser THEN Finish(p, 302)
                  ELSE [req EXCEPT ![p].target = target,
                                   ![p].pc = "commit"]
    /\ UNCHANGED <<users, user_elevation_history, audit_logs, nreq>>
    /\ UNCHANGED <<guard_vars, policy_vars, audit_vars>>

\* edit_user (POST): load the target, check can_modify_user
EditCheck(p) ==
    /\ req[p].op = "edit"
    /\ req[p].pc = "get_target"
    /\ LET target == get_user_by_id(req[p].uid)
       IN  req' = IF target = NoUser THEN Finish(p, 302)
                  ELSE IF ~can_modify_user(req[p].cu, target)
                       THEN Finish(p, 302)
                       ELSE [req EXCEPT ![p].target = target,
                                        ![p].pc = "commit"]
    /\ UNCHANGED <<users, user_elevation_history, audit_logs, nreq>>
    /\ UNCHANGED <<guard_vars, policy_vars, audit_vars>>

\* edit_user (POST): the profile UPDATE and the module_permissions UPDATE
EditCommit(p) ==
    /\ req[p].op = "edit"
    /\ req[p].pc = "commit"
    /\ users' = [users EXCEPT
                   ![req[p].uid].last_modified_by = req[p].cu.id,
                   ![req[p].uid].module_permissions = JsonList(req[p].perms)]
    /\ req' = [req EXCEPT ![p].pc = "audit"]
    /\ UNCHANGED <<user_elevation_history, audit_logs, nreq>>
    /\ UNCHANGED <<guard_vars, policy_vars, audit_vars>>

\* last tick of the clock
MaxClock == 3

\* the clock counts microseconds; the model's second has this many of them,
\* and its day this many seconds
TicksPerSecond == 2

SecondsPerDay == 1

\* datetime.utcnow().isoformat() + "Z" at tick t: date, time of day and the
\* microseconds; isoformat() prints no ".ffffff" part when they are zero, so
\* usec = 0 stands for the text "...SSZ" and usec > 0 for "...SS.ffffffZ"
isoformat(t) ==
    [day |-> (t \div TicksPerSecond) \div SecondsPerDay,
     sec |-> (t \div TicksPerSecond) % SecondsPerDay,
     usec |-> t % TicksPerSecond]

\* a < b for two ts_utc texts (TEXT column, BINARY collation): after equal
\* date and seconds the next characters are "." or "Z", and "." < "Z"
TextLess(a, b) ==
    \/ a.day < b.day
    \/ a.day = b.day /\ a.sec < b.sec
    \/ /\ a.day = b.day
       /\ a.sec = b.sec
       /\ \/ a.usec # 0 /\ b.usec = 0
          \/ a.usec # 0 /\ b.usec # 0 /\ a.usec < b.usec

\* the row record_audit_log inserts
AuditRow(user_data, action, module, target_user_id, target_username) ==
    [id |-> Len(audit_logs) + 1,
     ts_utc |-> isoformat(now),
     user_id |-> user_data.id,
     username |-> user_data.username,
     action |-> action,
     module |-> module,
     target_user_id |-> target_user_id,
     target_username |-> target_username,
     permission_level |->
        IF Truthy(get_user_permission_level(user_data))
        THEN get_user_permission_level(user_data) ELSE ""]

\* the action name each handler passes to record_audit
AuditAction(op) ==
    CASE op = "elevate" -> "elevate_user"
      [] op = "demote" -> "demote_user"
      [] op = "edit" -> "update_user"

\* record_audit -> admin.record_audit_log: the INSERT into audit_logs
record_audit_log(p) ==
    /\ req[p].pc = "audit"
    /\ audit_logs' =
         Append(audit_logs,
                AuditRow(req[p].cu, AuditAction(req[p].op), "users",
                         IF req[p].op = "edit" THEN 0 ELSE req[p].uid,
                         IF req[p].op = "edit" THEN None
                         ELSE req[p].target.username))
    /\ req' = Finish(p, IF req[p].op = "edit" THEN 302 ELSE 200)
    /\ UNCHANGED <<users, user_elevation_history, nreq>>
    /\ UNCHANGED <<guard_vars, policy_vars, audit_vars>>

\* record_audit_log raises (the audit store refuses the INSERT): nothing in
\* the handlers catches it, the request ends as an internal server error
record_audit_log_raises(p) ==
    /\ req[p].pc = "audit"
    /\ req' = Finish(p, 500)
    /\ UNCHANGED <<users, user_elevation_history, audit_logs, nreq>>
    /\ UNCHANGED <<guard_vars, policy_vars, audit_vars>>

\* ------------------------------------------------------------------------
\* Audit log queries (app/modules/admin/views.py, app/common/users.py)
\* ------------------------------------------------------------------------

\* rows of audit_logs in one run of the audit specification
MaxEntries == 3

\* SQLite date(ts_utc): the day of the timestamp
SqlDate(ts) == ts.day

\* text LIKE '%needle%' on the strings of the model (LIKE ignores ASCII case)
SqlLike(text, needle) ==
    CASE needle = "admin" -> text \in {"admin", "AppAdmin"}
      [] needle = "user" -> text \in {"elevate_user", "update_user", "demote_user"}
      [] OTHER -> text = needle

\* no date_from / date_to given (the empty string)
NoDate == -1

\* the module each audited action is recorded under
AuditModule(action) == IF action = "login" THEN "auth" ELSE "users"

AuditActions == {"login", "elevate_user"}

\* time passes
Tick ==
    /\ now < MaxClock
    /\ now' = now + 1
    /\ UNCHANGED <<mgmt_vars, guard_vars, policy_vars, query>>

\* record_audit_log that also trims the table to its two newest rows
Call_record_audit_log_trim ==
    /\ Len(audit_logs) < MaxEntries
    /\ \E u \in UserIds, action \in AuditActions :
          LET rows == Append(audit_logs,
                             AuditRow(users[u], action, AuditModule(action),
                                      0, None))
          IN  audit_logs' = IF Len(rows) > 2 THEN Tail(rows) ELSE rows
    /\ UNCHANGED <<users, user_elevation_history, req, nreq>>
    /\ UNCHANGED <<guard_vars, policy_vars, audit_vars>>

\* record_audit_log called for a signed-in user by any audited screen
Call_record_audit_log ==
    /\ Len(audit_logs) < MaxEntries
    /\ \E u \in UserIds, action \in AuditActions :
          audit_logs' = Append(audit_logs,
                               AuditRow(users[u], action, AuditModule(action),
                                        0, None))
    /\ UNCHANGED <<users, user_elevation_history, req, nreq>>
    /\ UNCHANGED <<guard_vars, policy_vars, audit_vars>>

NoFilters ==
    [username |-> "", action |-> "", module |-> "",
     date_from |-> NoDate, date_to |-> NoDate]

NoQuery == [fn |-> "none"]

\* the filters and limits of the queries
FilterUsernames == {"", "admin"}

FilterActions == {"", "elevate_user"}

FilterModules == {"", "users"}

FilterDatesFrom == {NoDate, 1}

FilterDatesTo == {NoDate, 0}

Limits == {1, 10}

\* the rows ORDER BY ts_utc DESC LIMIT limit can return for the audit_logs
\* rows with the ids of S: every order of S that is non-increasing in the
\* ts_utc text (SQL leaves the order of equal keys open), cut at the limit
OrderByTsDescLimit(S, limit) ==
    LET n == Cardinality(S)
        k == IF limit < n THEN limit ELSE n
        orders == {p \in [1..n -> S] :
                     /\ \A i, j \in 1..n : i # j => p[i] # p[j]
                     /\ \A i, j \in 1..n :
                           i < j => ~TextLess(audit_logs[p[i]].ts_utc,
                                              audit_logs[p[j]].ts_utc)}
    IN  {[i \in 1..k |-> audit_logs[p[i]]] : p \in orders}

\* the WHERE clause query_audit_logs builds from the filters present
AdminWhere(e, filters) ==
    /\ filters.username # "" => SqlLike(e.username, filters.username)
    /\ filters.action # "" => SqlLike(e.action, filters.action)
    /\ filters.module # "" => e.module = filters.module
    /\ filters.date_from # NoDate => SqlDate(e.ts_utc) >= filters.date_from
    /\ filters.date_to # NoDate => SqlDate(e.ts_utc) <= filters.date_to

\* admin.query_audit_logs(filters, limit)
query_audit_logs ==
    \E username \in FilterUsernames, action \in FilterActions,
       module \in FilterModules, date_from \in FilterDatesFrom,
       date_to \in FilterDatesTo, limit \in Limits :
        LET filters == [username |-> username, action |-> action,
                        module |-> module, date_from |-> date_from,
                        date_to |-> date_to]
            S == {i \in 1..Len(audit_logs) : AdminWhere(audit_logs[i], filters)}
        IN  /\ query.fn = "none"
            /\ \E rows \in OrderByTsDescLimit(S, limit) :
                  query' = [fn |-> "query_audit_logs", filters |-> filters,
                            limit |-> limit, rows |-> rows]
            /\ UNCHANGED <<mgmt_vars, guard_vars, policy_vars, now>>

\* the WHERE clause of common.users.query_audit (q left empty)
CommonWhere(e, filters) ==
    /\ filters.username # "" => e.username = filters.username
    /\ filters.action # "" => e.action = filters.action
    /\ filters.date_from # NoDate => SqlDate(e.ts_utc) >= filters.date_from
    /\ filters.date_to # NoDate => SqlDate(e.ts_utc) <= filters.date_to

\* common.users.query_audit(q, username, action, date_from, date_to, limit)
query_audit ==
    \E username \in FilterUsernames, action \in FilterActions,
       date_from \in FilterDatesFrom, date_to \in FilterDatesTo,
       limit \in Limits :
        LET filters == [username |-> username, action |-> action,
                        module |-> "", date_from |-> date_from,
                        date_to |-> date_to]
            S == {i \in 1..Len(audit_logs) : CommonWhere(audit_logs[i], filters)}
        IN  /\ query.fn = "none"
            /\ \E rows \in OrderByTsDescLimit(S, limit) :
                  query' = [fn |-> "query_audit", filters |-> filters,
                            limit |-> limit, rows |-> rows]
            /\ UNCHANGED <<mgmt_vars, guard_vars, policy_vars, now>>

AuditIdle ==
    /\ now = 0
    /\ query = NoQuery

MgmtInit ==
    /\ users = InitUsers
    /\ user_elevation_history = <<>>
    /\ audit_logs = <<>>
    /\ req = [p \in Procs |-> IdleRequest]
    /\ nreq = 0

MgmtIdle == MgmtInit

GuardIdle ==
    /\ session_user = NoUser
    /\ route_cap = "can_users"
    /\ response = NoResponse
    /\ resolved = NoResolved

PolicyIdle ==
    /\ actor_level = None
    /\ target_level = None
    /\ verdict = NoVerdict
    /\ included = NoIncluded
    /\ hierarchy = NoHierarchy

\* ------------------------------------------------------------------------
\* Specifications
\* ------------------------------------------------------------------------

PolicyInit ==
    /\ actor_level \in LevelInputs
    /\ target_level \in LevelInputs
    /\ verdict = NoVerdict
    /\ included = NoIncluded
    /\ hierarchy = NoHierarchy
    /\ MgmtIdle
    /\ GuardIdle
    /\ AuditIdle

PolicyNext == CallCanElevate \/ CallCanModify

SpecPolicy == PolicyInit /\ [][PolicyNext]_vars

ClosureNext == Call_get_included_permissions \/ Call_get_hierarchy_level

SpecClosure == PolicyInit /\ [][ClosureNext]_vars

GuardInit ==
    /\ session_user \in Principals \cup {NoUser}
    /\ route_cap \in RouteCaps
    /\ response = NoResponse
    /\ resolved = NoResolved
    /\ MgmtIdle
    /\ PolicyIdle
    /\ AuditIdle

GuardNext == require_cap \/ common_require_cap

SpecGuard == GuardInit /\ [][GuardNext]_vars

ResolveInit ==
    /\ session_user \in Principals
    /\ route_cap = "can_users"
    /\ response = NoResponse
    /\ resolved = NoResolved
    /\ MgmtIdle
    /\ PolicyIdle
    /\ AuditIdle

ResolveNext == Call_parse_caps \/ Call_caps_list

SpecResolve == ResolveInit /\ [][ResolveNext]_vars

DecideNext == require_cap \/ common_require_cap \/ core_require_cap

SpecDecide == GuardInit /\ [][DecideNext]_vars

Init ==
    /\ MgmtInit
    /\ GuardIdle
    /\ PolicyIdle
    /\ AuditIdle

Next ==
    \/ \E p \in Procs : ReceiveElevate(p)
    \/ \E p \in Procs : ReceiveDemote(p)
    \/ \E p \in Procs : ReceiveEdit(p)
    \/ \E p \in Procs : ElevateCheck(p)
    \/ \E p \in Procs : UpdateRead(p)
    \/ \E p \in Procs : UpdateCommit(p)
    \/ \E p \in Procs : DemoteCheck(p)
    \/ \E p \in Procs : DemoteCommit(p)
    \/ \E p \in Procs : EditCheck(p)
    \/ \E p \in Procs : EditCommit(p)
    \/ \E p \in Procs : record_audit_log(p)
    \/ \E p \in Procs : record_audit_log_raises(p)

Spec == Init /\ [][Next]_vars

\* the tables once AppAdmin has elevated bob to L3 (POST /users/elevate/3),
\* no request being served
ElevatedInit ==
    /\ users = [InitUsers EXCEPT ![3].permission_level = "L3",
                                 ![3].module_permissions = JsonList(<<>>),
                                 ![3].elevated_by = 1]
    /\ user_elevation_history =
         <<[user_id |-> 3, elevated_by |-> 1, old_level |-> "",
            new_level |-> "L3", old_permissions |-> JsonList(<<"M1">>),
            new_permissions |-> JsonList(<<>>), reason |-> ""]>>
    /\ audit_logs =
         <<[id |-> 1, ts_utc |-> isoformat(0), user_id |-> 1,
            username |-> "AppAdmin", action |-> "elevate_user",
            module |-> "users", target_user_id |-> 3,
            target_username |-> "bob", permission_level |-> "S1"]>>
    /\ req = [p \in Procs |-> IdleRequest]
    /\ nreq = 0
    /\ GuardIdle
    /\ PolicyIdle
    /\ AuditIdle

\* the request handlers served from there
SpecElevated == ElevatedInit /\ [][Next]_vars

AuditNext ==
    \/ Tick
    \/ Call_record_audit_log
    \/ query_audit_logs
    \/ query_audit

SpecAudit == Init /\ [][AuditNext]_vars

\* ------------------------------------------------------------------------
\* Properties
\* ------------------------------------------------------------------------

\* the capability tokens a row's caps payload grants (truthy entries of _parse_caps)
GrantedTokens(u) == {k \in DOMAIN _parse_caps(u) : _parse_caps(u)[k]}

\* the row's capability payload carries the system flag
SystemFlagged(u) ==
    /\ u # NoUser
    /\ "is_system" \in GrantedTokens(u)

\* the capabilities that Closure(level) stands for in get_effective_permissions
LevelGrants(level) ==
    {f \in DOMAIN EffectiveFlag :
        Truthy(level) /\ EffectiveFlag[f] \in Range(get_included_permissions(level))}

\* C1: a principal flagged is_system is Allowed for every required
\* capability, whatever else its row holds.
C1_SystemBypass ==
    (response.guard # "none" /\ SystemFlagged(session_user))
        => response.result = "view"

\* C2: a null principal is Denied for every required capability, and the
\* guard answers with the redirect to login: the handler is not invoked.
C2_NullPrincipalDenied ==
    /\ ~has_cap(NoUser, route_cap)
    /\ ~common_has_cap(NoUser, route_cap)
    /\ (response.guard # "none" /\ session_user = NoUser)
          => response.result = "login"

C2_Witness ==
    /\ response.guard = "auth"
    /\ session_user = NoUser
    /\ response.result = "login"

\* C3: a non-system principal with assigned level L is Allowed for every
\* capability of Closure(L); with only level M1 it is Allowed for can_send
\* and Denied for can_asset.
C3_LevelClosureAllowed ==
    (response.guard = "auth" /\ session_user # NoUser) =>
        /\ route_cap \in LevelGrants(session_user.permission_level)
              => response.result = "view"
        /\ ( /\ session_user.permission_level = "M1"
             /\ GrantedTokens(session_user) = {}
             /\ route_cap = "can_asset" )
              => response.result = "home"

ElevateTable ==
    {<<"L1", "L1">>,
     <<"L2", "L1">>, <<"L2", "L2">>,
     <<"L3", "L1">>, <<"L3", "L2">>, <<"L3", "L3">>,
     <<"S1", "L1">>, <<"S1", "L2">>, <<"S1", "L3">>, <<"S1", "S1">>}

\* C5: CanElevate(actor, target) is true exactly for the pairs of the fixed
\* table and false for a module-level, None or undefined actor.
C5_CanElevateTable ==
    verdict.fn = "can_elevate_to"
        => (verdict.result <=> <<actor_level, target_level>> \in ElevateTable)

C5_Witness ==
    /\ verdict.fn = "can_elevate_to"
    /\ actor_level = "L2"
    /\ target_level = "L3"
    /\ ~verdict.result

\* the ordered enumeration of levels and the rank it gives
LevelEnumeration == <<None, "M1", "M2", "M3A", "M3B", "M3C", "L1", "L2", "L3", "S1">>

EnumRank(level) == CHOOSE i \in 1..Len(LevelEnumeration) : LevelEnumeration[i] = level

\* C6: over the ordered enumeration, CanModify(actor, target) is true
\* exactly when rank(actor) > rank(target).
C6_CanModifyIsRankOrder ==
    ( /\ verdict.fn = "can_modify_user"
      /\ actor_level \in Range(LevelEnumeration)
      /\ target_level \in Range(LevelEnumeration) )
        => (verdict.result <=> EnumRank(actor_level) > EnumRank(target_level))

\* C7: CanModify(L, L) is false for every level L.
C7_CanModifyIrreflexive ==
    (verdict.fn = "can_modify_user" /\ actor_level = target_level)
        => ~verdict.result

C7_Witness ==
    /\ verdict.fn = "can_modify_user"
    /\ actor_level = "L1"
    /\ target_level = "L1"
    /\ ~verdict.result

\* the request of p takes a step
Steps(p) == req'[p] # req[p]

\* the level the handler of r computed for its actor does not allow the
\* requested level (an undefined token is in no row of the table)
PolicyRejects(r) ==
    <<get_user_permission_level(r.cu), r.new_level>> \notin ElevateTable

C9_RejectedElevateNoMutation ==
    /\ [][\A p \in Procs :
            /\ (Steps(p) /\ req'[p].op = "elevate" /\ req'[p].pc = "get_target"
                  /\ PolicyRejects(req'[p]))
               => UNCHANGED <<users, user_elevation_history, audit_logs>>
            /\ (Steps(p) /\ req[p].op = "elevate" /\ req[p].pc = "get_target"
                  /\ PolicyRejects(req[p]))
               => /\ UNCHANGED <<users, user_elevation_history, audit_logs>>
                  /\ req'[p].pc = "done"
                  /\ req'[p].status \in {400, 403, 404}]_vars
    /\ [](\A p \in Procs :
            (req[p].op = "elevate" /\ req[p].pc # "done" /\ PolicyRejects(req[p]))
            => req[p].pc = "get_target")

C9_Witness ==
    \E p \in Procs :
        /\ req[p].op = "elevate"
        /\ req[p].pc = "done"
        /\ req[p].new_level = "X9"
        /\ req[p].status = 403
        /\ users = InitUsers
        /\ user_elevation_history = <<>>

\* the rank of the level a row has now
RankOf(row) == EnumRank(get_user_permission_level(row))

UnparsableOrAbsent(c) ==
    \/ c.t = "none"
    \/ c.t = "str" /\ json_loads(c) = JsonError

\* the tokens a resolver call returned as granted; the is_admin and
\* is_sysadmin entries of _parse_caps come from the columns, not the payload
ResolvedTokens ==
    IF resolved.fn = "_parse_caps"
    THEN {k \in DOMAIN resolved.caps : resolved.caps[k]} \ {"is_admin", "is_sysadmin"}
    ELSE resolved.have

\* C11: Resolve returns for every raw payload, and for an unparsable or
\* absent payload the result is the empty set; Resolve("{not valid json")
\* is the empty set.
C11_ResolveTotal ==
    (resolved.fn # "none" /\ UnparsableOrAbsent(session_user.caps))
        => ResolvedTokens = {}

\* the capability tokens the guard that answered resolves from the payload
GuardTokens ==
    IF response.guard = "common" THEN _caps_list(session_user)
    ELSE GrantedTokens(session_user)

\* the row carries neither admin flag
NoAdminFlag(u) == ~Bool(u.is_admin) /\ ~Bool(u.is_sysadmin)

AssetNames == {"asset", "inventory"}

AssetForms == {"asset", "inventory", "can_asset", "can_inventory"}

\* C12: "asset" and "inventory" are one capability: a principal whose
\* payload grants either is Allowed when either (or its can_ form) is
\* required, and a principal granted neither is Denied for both.
C12_AssetInventorySame ==
    (response.guard # "none" /\ session_user # NoUser /\ route_cap \in AssetForms)
        => /\ GuardTokens \cap AssetNames # {} => response.result = "view"
           /\ (GuardTokens \cap AssetForms = {} /\ NoAdminFlag(session_user)
                 /\ {"is_admin", "is_sysadmin"} \cap GuardTokens = {})
                 => response.result = "home"

\* the decision of the implementation behind the guard that answered
GuardAllows(cap) ==
    IF response.guard = "common" THEN common_has_cap(session_user, cap)
    ELSE has_cap(session_user, cap)

\* C13: "fulfillment_any" is the union of "fulfillment_staff" and
\* "fulfillment_customer": a non-admin principal is Allowed for
\* fulfillment_any exactly when it is Allowed for fulfillment_staff or for
\* fulfillment_customer.
C13_FulfillmentAnyIsUnion ==
    ( /\ response.guard # "none"
      /\ session_user # NoUser
      /\ NoAdminFlag(session_user)
      /\ {"is_admin", "is_sysadmin"} \cap GuardTokens = {}
      /\ route_cap = "fulfillment_any" )
        => (response.result = "view"
              <=> (GuardAllows("fulfillment_staff")
                     \/ GuardAllows("fulfillment_customer")))

\* the payload is a dict or a list of tokens, as a Python value or as JSON text
TokenPayload(c) ==
    \/ c.t \in {"dict", "list"}
    \/ c.t = "str" /\ json_loads(c).t \in {"dict", "list"}

\* the tokens of such a payload that carry a truthy value
PayloadTruthy(c) ==
    LET v == IF c.t = "str" THEN json_loads(c) ELSE c
    IN  IF v.t = "dict" THEN {k \in DOMAIN v.d : v.d[k]} ELSE Range(v.l)

ColumnFlags == {"is_admin", "is_sysadmin"}

\* C14: Resolve keeps exactly the tokens with truthy values, lower-cased
\* and trimmed: a token with a falsy value grants nothing, and tokens that
\* differ only in letter case or surrounding whitespace resolve to the same
\* capability.
C14_TruthyLowerTrim ==
    (resolved.fn # "none" /\ TokenPayload(session_user.caps))
        => ResolvedTokens \ ColumnFlags
             = {Lower(Strip(t)) : t \in PayloadTruthy(session_user.caps)}
                  \ ColumnFlags

\* Closure(level): the set of levels get_included_permissions lists
Closure(level) == Range(get_included_permissions(level))

\* C15: Closure is idempotent: for every level L, the union of Closure(x)
\* over the levels x of Closure(L) is Closure(L) again.
C15_ClosureIdempotent ==
    included.called
        => UNION {Closure(x) : x \in Range(included.perms)} = Range(included.perms)

C15_Witness ==
    /\ included.called
    /\ actor_level = "M3C"
    /\ Range(included.perms) = {"M3C", "M3B", "M3A"}

\* the levels reached from those of S in at most n steps of "includes"
RECURSIVE Descend(_, _)
Descend(S, n) ==
    IF n = 0 THEN S
    ELSE Descend(S \cup UNION {Closure(x) \ {x} : x \in S}, n - 1)

AdminChain == {<<"L1", "L2">>, <<"L2", "L3">>, <<"L3", "S1">>}

\* C16: Closure(S1) contains Closure(L) of every defined level L, the
\* admin-tier closures are strictly nested, Closure(L1) within Closure(L2)
\* within Closure(L3) within Closure(S1), and no level is reached from
\* itself along the "includes" relation.
C16_ClosureNested ==
    included.called
        => /\ actor_level = "S1"
                => \A L \in LevelValues : Closure(L) \subseteq Range(included.perms)
           /\ <<target_level, actor_level>> \in AdminChain
                => /\ Closure(target_level) \subseteq Range(included.perms)
                   /\ Closure(target_level) # Range(included.perms)
           /\ actor_level \notin Descend(Range(included.perms) \ {actor_level},
                                         Cardinality(LevelValues))

C16_Witness ==
    /\ included.called
    /\ actor_level = "L3"
    /\ target_level = "L2"
    /\ "L2" \in Range(included.perms)
    /\ Len(included.perms) = 8

\* C17: the rank is strictly increasing along the enumeration M1 < M2 < M3A
\* < M3B < M3C < L1 < L2 < L3 < S1 (distinct levels, distinct ranks), and
\* consistent with the closure: a level B of Closure(A) other than A has a
\* lower rank than A.
C17_RankStrictlyMonotonic ==
    hierarchy.called
        => /\ EnumRank(actor_level) < EnumRank(target_level)
                => hierarchy.actor < hierarchy.target
           /\ (target_level \in Closure(actor_level) /\ target_level # actor_level)
                => hierarchy.target < hierarchy.actor

\* the response the handler gives when it runs to its return statement
OwnResult(op) == IF op = "edit" THEN 302 ELSE 200

\* C18: Record never raises to its caller: a request that reached its audit
\* write ends with the result of its own operation, whether or not the
\* write succeeded.
C18_RecordNeverRaises ==
    [][\A p \in Procs :
        (Steps(p) /\ req[p].pc = "audit")
            => req'[p].status = OwnResult(req[p].op)]_vars

\* the instant a ts_utc text denotes, in clock ticks
InstantOf(ts) == (ts.day * SecondsPerDay + ts.sec) * TicksPerSecond + ts.usec

\* the rows the WHERE clause of the query q selects from the log
Selected(q) ==
    {e \in Range(audit_logs) :
        IF q.fn = "query_audit_logs" THEN AdminWhere(e, q.filters)
        ELSE CommonWhere(e, q.filters)}

\* a query returns in this step
QueryReturns == query.fn = "none" /\ query'.fn # "none"

\* C19: Query(filters, limit) returns the matching entries newest first and
\* never more than limit of them: the result is the limit newest matching
\* entries, in non-increasing order of their timestamps.
C19_QueryNewestFirst ==
    [][QueryReturns =>
        LET rows == query'.rows
            n == Len(rows)
            sel == Selected(query')
        IN  /\ n <= query'.limit
            /\ n = IF query'.limit < Cardinality(sel) THEN query'.limit
                   ELSE Cardinality(sel)
            /\ Range(rows) \subseteq sel
            /\ \A i, j \in 1..n : i # j => rows[i] # rows[j]
            /\ \A i, j \in 1..n :
                  i < j => InstantOf(rows[i].ts_utc) >= InstantOf(rows[j].ts_utc)
            /\ \A e \in sel \ Range(rows) : \A i \in 1..n :
                  InstantOf(e.ts_utc) <= InstantOf(rows[i].ts_utc)]_vars

\* the query gives the username filter and no other
OnlyUsername(f) == f.username # "" /\ f = [NoFilters EXCEPT !.username = f.username]

\* C20: the filters are conjunctive and exact for the actor: every returned
\* entry satisfies all filters present, and Query({username: u}, limit)
\* returns exactly the entries recorded for actor u (up to limit) and no
\* entry of any other actor.
C20_QueryFiltersExact ==
    [][QueryReturns =>
        LET rows == query'.rows
            f == query'.filters
            ofActor == {e \in Range(audit_logs) : e.username = f.username}
        IN  /\ \A i \in 1..Len(rows) :
                  /\ f.username # "" => rows[i].username = f.username
                  /\ f.action # "" => rows[i].action = f.action
                  /\ f.module # "" => rows[i].module = f.module
                  /\ f.date_from # NoDate => SqlDate(rows[i].ts_utc) >= f.date_from
                  /\ f.date_to # NoDate => SqlDate(rows[i].ts_utc) <= f.date_to
            /\ OnlyUsername(f) =>
                  /\ Range(rows) \subseteq ofActor
                  /\ Cardinality(ofActor) <= query'.limit => Range(rows) = ofActor]_vars

\* C21: audit ordering within one caller: when one caller recorded entry A
\* and later entry B, a query whose result holds both lists B before A, so
\* the entries of one caller come back in the reverse of the order they
\* were recorded in.
C21_CallerOrderKept ==
    [][QueryReturns =>
        LET rows == query'.rows
        IN  \A i, j \in 1..Len(rows) :
               (i < j /\ rows[i].user_id = rows[j].user_id)
                  => rows[i].id > rows[j].id]_vars

\* C22: the audit log is append-only: no operation changes or removes an
\* entry once recorded; every step leaves the entries already in the log in
\* place, with their fields as they were.
C22_AuditAppendOnly ==
    [][/\ Len(audit_logs') >= Len(audit_logs)
       /\ SubSeq(audit_logs', 1, Len(audit_logs)) = audit_logs]_vars

C22_Witness ==
    /\ Len(audit_logs) = MaxEntries
    /\ audit_logs[1].ts_utc # audit_logs[MaxEntries].ts_utc
    /\ query.fn # "none"

\* the request of p commits its change of the target's level in this step
LevelWrite(p) ==
    /\ Steps(p)
    /\ \/ req[p].op = "elevate" /\ req[p].pc = "upd_commit"
       \/ req[p].op = "demote" /\ req[p].pc = "commit"

DecisionOf(guard) ==
    CASE guard = "auth" ->
            IF session_user = NoUser THEN "login"
            ELSE IF has_cap(session_user, route_cap) THEN "view" ELSE "home"
      [] guard = "common" ->
            IF session_user = NoUser THEN "login"
            ELSE IF common_has_cap(session_user, route_cap) THEN "view" ELSE "home"
      [] guard = "core" ->
            IF session_user = NoUser THEN "login"
            ELSE IF _has_cap_raises(_row_to_user(session_user), route_cap)
                 THEN "error"
                 ELSE IF _has_cap(_row_to_user(session_user), route_cap)
                      THEN "view" ELSE "home"

\* C26: there is a single authorization decision: has_cap of
\* auth/security.py, has_cap of common/security.py and _has_cap of
\* core/auth.py give the same decision for the same principal record and
\* required capability, so the answer of whichever guard ran is the answer
\* the other two give.
C26_SingleDecision ==
    response.guard # "none"
        => \A g \in {"auth", "common", "core"} : DecisionOf(g) = response.result

AdminLevels == {"L1", "L2", "L3", "S1"}

ElevatedInitReached ==
    /\ users = [InitUsers EXCEPT ![3].permission_level = "L3",
                                 ![3].module_permissions = JsonList(<<>>),
                                 ![3].elevated_by = 1]
    /\ user_elevation_history =
         <<[user_id |-> 3, elevated_by |-> 1, old_level |-> "",
            new_level |-> "L3", old_permissions |-> JsonList(<<"M1">>),
            new_permissions |-> JsonList(<<>>), reason |-> ""]>>
    /\ audit_logs =
         <<[id |-> 1, ts_utc |-> isoformat(0), user_id |-> 1,
            username |-> "AppAdmin", action |-> "elevate_user",
            module |-> "users", target_user_id |-> 3,
            target_username |-> "bob", permission_level |-> "S1"]>>
    /\ \A p \in Procs : req[p].pc \in {"idle", "done"}

====
